---- MODULE Spec2Model ----
(***************************************************************************)
(* A model of the wave-api backend: the content cursor store               *)
(* (sentence_rearranging.py, reading_speed.py, dyslexia_myths.py) as       *)
(* concurrent database transactions, and the letter-match scorer           *)
(* (canvas_detector.py) as a function of the OCR symbols.                  *)
(*                                                                         *)
(* The database is PostgreSQL at its default isolation level (READ         *)
(* COMMITTED): every statement reads the data committed when it starts, a  *)
(* transaction's writes become visible at its commit, and a transaction    *)
(* scoped advisory lock is held until the commit or the rollback.          *)
(***************************************************************************)
EXTENDS Integers, Sequences, FiniteSets, TLC

\* ------------------------------------------------------------------ bounds
\* Content ids are drawn from 1..MaxId.
MaxId == 3
\* fetch_next_myth_row is called with batch_size in 1..MaxBatch.
MaxBatch == 3
\* Number of concurrent request workers.
NProcs == 2
\* The OCR answer holds at most MaxDet symbols.
MaxDet == 4
\* generate_rearranged_labels is asked for at most MaxCount jumbles.
MaxCount == 3

Procs == 1..NProcs

\* -------------------------------------------------------- program constants
\* COALESCE((SELECT last_..._id FROM cur), 0)
CursorDefault == 0
\* LIMIT 1 of the single-row store
OneRow == 1
\* myth_cursors(singleton = 1)
Singleton == 1

\* canvas_detector tunables, in thousandths
TOP_CONF_EASY == 700
MIN_RATIO == 600
MIN_CONF_SYMBOL == 300
\* "+ 0.10" for an allowed equivalent, in thousandths
EQUIV_MARGIN == 100

SentenceLevels == {"Easy", "Hard"}
ReadingLevels == {"Easy"}
MythLock == "dyslexia_myths_stream"

VARIABLES
    sentence_jumbling,      \* set of [sentence_id, difficulty_level]
    sentence_cursors,       \* set of [difficulty_level, last_sentence_id]
    reading_speed,          \* set of [id, level]
    reading_speed_cursors,  \* set of [level, last_reading_id]
    dyslexia_myths,         \* set of [id]
    myth_cursors,           \* set of [singleton, last_myth_id]
    locks,                  \* advisory locks held: set of [name, owner]
    pc,                     \* pc[p]: where worker p is in its call
    call,                   \* call[p]: [fn, level, batch_size]
    fetched,                \* fetched[p]: ids of the rows the select returned
    pending,                \* pending[p]: uncommitted cursor upserts of p's transaction
    conn,                   \* conn[p]: [commits, rollbacks, closed]
    ret,                    \* ret[p]: [kind, ids] what the call returned or raised
    atLock,                 \* atLock[p]: the stored cursor when p got its lock (history,
                            \*   kept while the transaction is open)
    seen,                   \* seen[p]: the cursor value p's select read (history)
    lastServed              \* lastServed[k]: the id key k's last committed serve ended with (history)

storeVars == <<sentence_jumbling, sentence_cursors, reading_speed, reading_speed_cursors,
               dyslexia_myths, myth_cursors, locks, pc, call, fetched, pending, conn,
               ret, atLock, seen, lastServed>>

VARIABLES
    request,                \* [expected_letter, is_capital, level] of the scorer call
    symbols,                \* OCR symbols read so far: [text, confidence], confidence
                            \*   in ten-thousandths as the OCR provider sent it
    letters,                \* letters: [letter, confidence], confidence in thousandths
    seq_chars,              \* seq_chars: the letters of symbols with confidence >= 0.30
    result                  \* the dict the scorer returned, or NoResult

scorerVars == <<request, symbols, letters, seq_chars, result>>

VARIABLES
    http,                   \* the HTTP request being served: endpoint, credentials, body
    stage,                  \* where the serving of it stands
    exc,                    \* the exception in flight, or NoExc
    inner,                  \* the exception raised inside the route's try block, or
                            \*   NoExc (history)
    response,               \* the response sent, or NoResponse
    calls                   \* calls made for this request: [ocr, db, chat]

apiVars == <<http, stage, exc, inner, response, calls>>

VARIABLES
    correct_label,          \* generate_rearranged_labels: the label, as characters
    count,                  \* the number of jumbles asked for
    chars,                  \* chars: the list shuffled in place
    fake_labels,            \* fake_labels: the set of jumbles kept
    attempts,               \* attempts
    returned                \* TRUE once list(fake_labels) has been returned

labelVars == <<correct_label, count, chars, fake_labels, attempts, returned>>

VARIABLES
    ADMIN_USERNAME,         \* os.getenv("ADMIN_USERNAME") at import; "" when unset or empty
    ADMIN_PASSWORD          \* os.getenv("ADMIN_PASSWORD") at import; "" when unset or empty

envVars == <<ADMIN_USERNAME, ADMIN_PASSWORD>>

vars == <<storeVars, scorerVars, apiVars, labelVars, envVars>>

\* ------------------------------------------------------------- SQL helpers
Min(S) == CHOOSE x \in S : \A y \in S : x <= y

RECURSIVE OrderByAsc(_)
\* ORDER BY id ASC over a set of ids
OrderByAsc(S) == IF S = {} THEN <<>> ELSE <<Min(S)>> \o OrderByAsc(S \ {Min(S)})

\* LIMIT n
Limit(s, n) == SubSeq(s, 1, IF Len(s) < n THEN Len(s) ELSE n)

\* COALESCE((SELECT last FROM cur), 0): cur holds at most one value
Coalesce(cur) == IF cur = {} THEN CursorDefault ELSE CHOOSE v \in cur : TRUE

\* SelectNext with "id >= cursor" in place of "id > cursor".
SelectNextInclusive(ids, cur) ==
    LET nxt  == Limit(OrderByAsc({i \in ids : i >= Coalesce(cur)}), OneRow)
        wrap == Limit(OrderByAsc(ids), OneRow)
    IN  nxt \o (IF nxt = <<>> THEN wrap ELSE <<>>)

\* The single-row select: nxt UNION ALL (wrap WHERE NOT EXISTS nxt), over the
\* ids of the category and the cursor values stored for it.
SelectNext(ids, cur) ==
    LET nxt  == Limit(OrderByAsc({i \in ids : i > Coalesce(cur)}), OneRow)
        wrap == Limit(OrderByAsc(ids), OneRow)
    IN  nxt \o (IF nxt = <<>> THEN wrap ELSE <<>>)

\* The batch select of fetch_next_myth_row: the three LIMIT/count parameters
\* are passed as (batch_size, batch_size - 1, batch_size).
SelectBatch(ids, cur, nxtLimit, wrapLimit, threshold) ==
    LET nxt  == Limit(OrderByAsc({i \in ids : i > Coalesce(cur)}), nxtLimit)
        wrap == Limit(OrderByAsc(ids), wrapLimit)
    IN  nxt \o (IF Len(nxt) < threshold THEN wrap ELSE <<>>)

\* An upsert that sets the cursor of every level, not only its own.
UpsertSentenceCursorAllLevels(table, level, id) ==
    {[r EXCEPT !.last_sentence_id = id] : r \in table}
        \cup {[difficulty_level |-> level, last_sentence_id |-> id]}

\* A plain INSERT, without the ON CONFLICT clause.
InsertSentenceCursor(table, level, id) ==
    table \cup {[difficulty_level |-> level, last_sentence_id |-> id]}

\* INSERT ... ON CONFLICT (key) DO UPDATE SET last = EXCLUDED.last
UpsertSentenceCursor(table, level, id) ==
    IF \E r \in table : r.difficulty_level = level
    THEN {IF r.difficulty_level = level
          THEN [r EXCEPT !.last_sentence_id = id] ELSE r : r \in table}
    ELSE table \cup {[difficulty_level |-> level, last_sentence_id |-> id]}

UpsertReadingCursor(table, level, id) ==
    IF \E r \in table : r.level = level
    THEN {IF r.level = level THEN [r EXCEPT !.last_reading_id = id] ELSE r : r \in table}
    ELSE table \cup {[level |-> level, last_reading_id |-> id]}

UpsertMythCursor(table, id) ==
    IF \E r \in table : r.singleton = Singleton
    THEN {IF r.singleton = Singleton THEN [r EXCEPT !.last_myth_id = id] ELSE r : r \in table}
    ELSE table \cup {[singleton |-> Singleton, last_myth_id |-> id]}

\* ------------------------------------------------------- per-call helpers
SentenceIds(level) ==
    {r.sentence_id : r \in {x \in sentence_jumbling : x.difficulty_level = level}}
SentenceCur(level) ==
    {r.last_sentence_id : r \in {x \in sentence_cursors : x.difficulty_level = level}}
ReadingIds(level) == {r.id : r \in {x \in reading_speed : x.level = level}}
ReadingCur(level) ==
    {r.last_reading_id : r \in {x \in reading_speed_cursors : x.level = level}}
MythIds == {r.id : r \in dyslexia_myths}
MythCur == {r.last_myth_id : r \in {x \in myth_cursors : x.singleton = Singleton}}

\* The category key of a call, and the ids and cursor values it reads.
KeyOf(c) == <<c.fn, c.level>>
IdsOf(c) ==
    IF c.fn = "sentence" THEN SentenceIds(c.level)
    ELSE IF c.fn = "reading" THEN ReadingIds(c.level) ELSE MythIds
CurOf(c) ==
    IF c.fn = "sentence" THEN SentenceCur(c.level)
    ELSE IF c.fn = "reading" THEN ReadingCur(c.level) ELSE MythCur

\* pg_advisory_xact_lock(hashtext(level)) / hashtext('dyslexia_myths_stream'):
\* sentence and reading calls of the same level string share one lock.
LockName(c) == IF c.fn = "myth" THEN MythLock ELSE c.level

Keys == {<<"sentence", l>> : l \in SentenceLevels}
            \cup {<<"reading", l>> : l \in ReadingLevels}
            \cup {<<"myth", MythLock>>}

\* fetch_next_sentence_row(level), fetch_next_reading_row(level)
RowCalls == [fn : {"sentence"}, level : SentenceLevels, batch_size : {0}]
            \cup [fn : {"reading"}, level : ReadingLevels, batch_size : {0}]
\* fetch_next_myth_row(batch_size)
BatchCalls == [fn : {"myth"}, level : {MythLock}, batch_size : 1..MaxBatch]

NoCall == [fn |-> "none", level |-> "", batch_size |-> 0]
NoRet == [kind |-> "none", ids |-> <<>>]
FreshConn == [commits |-> 0, rollbacks |-> 0, closed |-> FALSE]

\* ------------------------------------------------------------ initial state
\* The content tables are reference data loaded before the service starts.
\* The id sets tried: none, all of 1..MaxId, a gap in the middle, a gap at
\* the start.  Sentence ids are shared by the levels (one SERIAL key): odd
\* ids are "Easy" sentences and even ids "Hard" ones.
IdSets == {{}, 1..MaxId, {1, MaxId}, 2..MaxId}

SentenceTable(S) ==
    {[sentence_id |-> i, difficulty_level |-> IF i % 2 = 1 THEN "Easy" ELSE "Hard"] : i \in S}
ReadingTable(S) == {[id |-> i, level |-> "Easy"] : i \in S}
MythTable(S) == {[id |-> i] : i \in S}

StoreInit ==
    /\ \E S \in IdSets :
          /\ sentence_jumbling = SentenceTable(S)
          /\ reading_speed = ReadingTable(S)
          /\ dyslexia_myths = MythTable(S)
    /\ sentence_cursors = {}
    /\ reading_speed_cursors = {}
    /\ myth_cursors = {}
    /\ locks = {}
    /\ pc = [p \in Procs |-> "idle"]
    /\ call = [p \in Procs |-> NoCall]
    /\ fetched = [p \in Procs |-> <<>>]
    /\ pending = [p \in Procs |-> <<>>]
    /\ conn = [p \in Procs |-> FreshConn]
    /\ ret = [p \in Procs |-> NoRet]
    /\ atLock = [p \in Procs |-> CursorDefault]
    /\ seen = [p \in Procs |-> CursorDefault]
    /\ lastServed = [k \in Keys |-> CursorDefault]

\* ------------------------------------------------------------ transactions
\* Rollback that lets the transaction's writes through (as a commit would).
RollbackKeepsWrites(p) ==
    /\ sentence_cursors' =
         IF call[p].fn = "sentence" /\ pending[p] # <<>>
         THEN UpsertSentenceCursor(sentence_cursors, call[p].level, Head(pending[p]))
         ELSE sentence_cursors
    /\ reading_speed_cursors' =
         IF call[p].fn = "reading" /\ pending[p] # <<>>
         THEN UpsertReadingCursor(reading_speed_cursors, call[p].level, Head(pending[p]))
         ELSE reading_speed_cursors
    /\ myth_cursors' =
         IF call[p].fn = "myth" /\ pending[p] # <<>>
         THEN UpsertMythCursor(myth_cursors, Head(pending[p]))
         ELSE myth_cursors
    /\ pending' = [pending EXCEPT ![p] = <<>>]
    /\ locks' = {l \in locks : l.owner # p}

\* A rollback that leaves the advisory lock with the session.
RollbackKeepsLock(p) ==
    /\ pending' = [pending EXCEPT ![p] = <<>>]
    /\ UNCHANGED locks
    /\ UNCHANGED <<sentence_cursors, reading_speed_cursors, myth_cursors>>

\* conn.rollback(): the transaction's writes are discarded and its advisory
\* locks released.
Rollback(p) ==
    /\ pending' = [pending EXCEPT ![p] = <<>>]
    /\ locks' = {l \in locks : l.owner # p}
    /\ UNCHANGED <<sentence_cursors, reading_speed_cursors, myth_cursors>>

\* What the connection object has been asked to do: conn.rollback(),
\* conn.commit(), conn.close().
\* conn.commit() called where conn.rollback() is.
RolledBackAsCommit(c) == [c EXCEPT !.commits = @ + 1]
RolledBack(c) == [c EXCEPT !.rollbacks = @ + 1]
Committed(c) == [c EXCEPT !.commits = @ + 1]
Closed(c) == [c EXCEPT !.closed = TRUE]

RECURSIVE ApplySentence(_, _, _)
ApplySentence(table, level, writes) ==
    IF writes = <<>> THEN table
    ELSE ApplySentence(UpsertSentenceCursor(table, level, Head(writes)), level, Tail(writes))
RECURSIVE ApplyReading(_, _, _)
ApplyReading(table, level, writes) ==
    IF writes = <<>> THEN table
    ELSE ApplyReading(UpsertReadingCursor(table, level, Head(writes)), level, Tail(writes))
RECURSIVE ApplyMyth(_, _)
ApplyMyth(table, writes) ==
    IF writes = <<>> THEN table
    ELSE ApplyMyth(UpsertMythCursor(table, Head(writes)), Tail(writes))

\* conn.commit(): the transaction's cursor upserts become the stored cursor
\* and its advisory locks are released.
CommitTxn(p) ==
    /\ sentence_cursors' =
         IF call[p].fn = "sentence"
         THEN ApplySentence(sentence_cursors, call[p].level, pending[p])
         ELSE sentence_cursors
    /\ reading_speed_cursors' =
         IF call[p].fn = "reading"
         THEN ApplyReading(reading_speed_cursors, call[p].level, pending[p])
         ELSE reading_speed_cursors
    /\ myth_cursors' =
         IF call[p].fn = "myth" THEN ApplyMyth(myth_cursors, pending[p]) ELSE myth_cursors
    /\ pending' = [pending EXCEPT ![p] = <<>>]
    /\ locks' = {l \in locks : l.owner # p}

\* No advisory lock taken: the statement never waits.
LockFreeAlways(name, p) == TRUE
\* pg_advisory_xact_lock blocks while another transaction holds the lock.
LockFree(name, p) == ~ \E l \in locks : l.name = name /\ l.owner # p

\* The rows the call's select statement returns, as the cursor reads them:
\* fetchone() of the single-row select, fetchall() of the batch select.
Query(c) ==
    IF c.fn = "myth"
    THEN SelectBatch(IdsOf(c), CurOf(c), c.batch_size, c.batch_size - 1, c.batch_size)
    ELSE Limit(SelectNext(IdsOf(c), CurOf(c)), OneRow)

\* What a call returns when the select found nothing / found rows.
NoRowRet(c) == [kind |-> IF c.fn = "myth" THEN "empty" ELSE "None", ids |-> <<>>]
RowRet(c, rows) == [kind |-> IF c.fn = "myth" THEN "rows" ELSE "row", ids |-> rows]
Raised == [kind |-> "raised", ids |-> <<>>]

\* The id the cursor is set to: row["sentence_id"] / row["id"] / rows[-1]["id"].
CursorTarget(rows) == rows[Len(rows)]

contentVars == <<sentence_jumbling, reading_speed, dyslexia_myths>>
cursorVars == <<sentence_cursors, reading_speed_cursors, myth_cursors>>

\* ------------------------------------------------------------------ actions
\* A request enters fetch_next_sentence_row / fetch_next_reading_row and opens
\* its connection.
CallRow(p) ==
    /\ pc[p] = "idle"
    /\ \E c \in RowCalls : call' = [call EXCEPT ![p] = c]
    /\ pc' = [pc EXCEPT ![p] = "lock"]
    /\ UNCHANGED <<contentVars, cursorVars, locks, fetched, pending, conn, ret, atLock, seen,
                   lastServed>>

\* A request enters fetch_next_myth_row and opens its connection.
CallBatch(p) ==
    /\ pc[p] = "idle"
    /\ \E c \in BatchCalls : call' = [call EXCEPT ![p] = c]
    /\ pc' = [pc EXCEPT ![p] = "lock"]
    /\ UNCHANGED <<contentVars, cursorVars, locks, fetched, pending, conn, ret, atLock, seen,
                   lastServed>>

\* cur.execute("SELECT pg_advisory_xact_lock(hashtext(...))")
AcquireLock(p) ==
    /\ pc[p] = "lock"
    /\ LockFree(LockName(call[p]), p)
    /\ locks' = locks \cup {[name |-> LockName(call[p]), owner |-> p]}
    /\ pc' = [pc EXCEPT ![p] = "select"]
    /\ atLock' = [atLock EXCEPT ![p] = Coalesce(CurOf(call[p]))]
    /\ UNCHANGED <<contentVars, cursorVars, call, fetched, pending, conn, ret, seen,
                   lastServed>>

\* cur.execute(sql_select); fetchone()/fetchall(); without rows:
\* conn.rollback(), return None / [] (and, leaving, finally: conn.close()).
Select(p) ==
    /\ pc[p] = "select"
    /\ seen' = [seen EXCEPT ![p] = Coalesce(CurOf(call[p]))]
    /\ IF Query(call[p]) = <<>>
       THEN /\ Rollback(p)
            /\ conn' = [conn EXCEPT ![p] = Closed(RolledBack(@))]
            /\ ret' = [ret EXCEPT ![p] = NoRowRet(call[p])]
            /\ pc' = [pc EXCEPT ![p] = "done"]
            /\ atLock' = [atLock EXCEPT ![p] = CursorDefault]
            /\ UNCHANGED fetched
       ELSE /\ fetched' = [fetched EXCEPT ![p] = Query(call[p])]
            /\ pc' = [pc EXCEPT ![p] = "upsert"]
            /\ UNCHANGED <<cursorVars, locks, pending, conn, ret, atLock>>
    /\ UNCHANGED <<contentVars, call, lastServed>>

\* cur.execute(sql_update_cursor, ...): written inside the open transaction.
Upsert(p) ==
    /\ pc[p] = "upsert"
    /\ pending' = [pending EXCEPT ![p] = Append(@, CursorTarget(fetched[p]))]
    /\ pc' = [pc EXCEPT ![p] = "commit"]
    /\ UNCHANGED <<contentVars, cursorVars, locks, call, fetched, conn, ret, atLock, seen,
                   lastServed>>

\* conn.commit(); return row / rows (and, leaving, finally: conn.close())
Commit(p) ==
    /\ pc[p] = "commit"
    /\ CommitTxn(p)
    /\ conn' = [conn EXCEPT ![p] = Closed(Committed(@))]
    /\ ret' = [ret EXCEPT ![p] = RowRet(call[p], fetched[p])]
    /\ lastServed' = [lastServed EXCEPT ![KeyOf(call[p])] = CursorTarget(fetched[p])]
    /\ pc' = [pc EXCEPT ![p] = "done"]
    /\ fetched' = [fetched EXCEPT ![p] = <<>>]
    /\ atLock' = [atLock EXCEPT ![p] = CursorDefault]
    /\ UNCHANGED <<contentVars, call, seen>>

\* A statement of the call raises once the lock is held (lost connection, SQL
\* error, ...): the select, the cursor upsert, or the commit (a COMMIT that
\* fails aborts the transaction).
Fault(p) ==
    /\ pc[p] \in {"select", "upsert", "commit"}
    /\ pc' = [pc EXCEPT ![p] = "except"]
    /\ UNCHANGED <<contentVars, cursorVars, locks, call, fetched, pending, conn, ret,
                   atLock, seen, lastServed>>

\* except Exception as e: conn.rollback(); raise e (and finally: conn.close())
Except(p) ==
    /\ pc[p] = "except"
    /\ Rollback(p)
    /\ conn' = [conn EXCEPT ![p] = Closed(RolledBack(@))]
    /\ ret' = [ret EXCEPT ![p] = Raised]
    /\ pc' = [pc EXCEPT ![p] = "done"]
    /\ atLock' = [atLock EXCEPT ![p] = CursorDefault]
    /\ seen' = [seen EXCEPT ![p] = CursorDefault]
    /\ fetched' = [fetched EXCEPT ![p] = <<>>]
    /\ UNCHANGED <<contentVars, call, lastServed>>

\* The result has been handed to the route; the worker takes the next request.
Return(p) ==
    /\ pc[p] = "done"
    /\ pc' = [pc EXCEPT ![p] = "idle"]
    /\ call' = [call EXCEPT ![p] = NoCall]
    /\ fetched' = [fetched EXCEPT ![p] = <<>>]
    /\ conn' = [conn EXCEPT ![p] = FreshConn]
    /\ ret' = [ret EXCEPT ![p] = NoRet]
    /\ atLock' = [atLock EXCEPT ![p] = CursorDefault]
    /\ seen' = [seen EXCEPT ![p] = CursorDefault]
    /\ UNCHANGED <<contentVars, cursorVars, locks, pending, lastServed>>

\* The steps every cursor-store call shares once it has its connection.
TxnStep(p) ==
    \/ AcquireLock(p)
    \/ Select(p)
    \/ Upsert(p)
    \/ Commit(p)
    \/ Fault(p)
    \/ Except(p)
    \/ Return(p)

\* ================================================================== scorer
\* Characters are one-character strings; a Python string is the sequence of
\* its characters.  The model alphabet: the letters a, c, o in both cases,
\* the digit "1" and the non-ASCII letter e-acute (written "e_acute").
Upper(ch) == CASE ch = "a" -> "A" [] ch = "c" -> "C" [] ch = "o" -> "O" [] OTHER -> ch
Lower(ch) == CASE ch = "A" -> "a" [] ch = "C" -> "c" [] ch = "O" -> "o" [] OTHER -> ch
\* str.isalpha()
IsAlpha(ch) == ch \in {"a", "c", "o", "A", "C", "O", "e_acute"}
\* ord(ch) < 128
IsAscii(ch) == ch # "e_acute"

\* ch.isalpha() and ord(ch) < 128 with the ord() test left out.
KeepsSymbolAnyAlpha(ch) == IsAlpha(ch)
\* ch.isalpha() and ord(ch) < 128
KeepsSymbol(ch) == IsAlpha(ch) /\ IsAscii(ch)

\* The case of a detected character left as the OCR provider sent it.
NormCaseKeep(ch, is_capital) == ch
\* ch.upper() if is_capital == "capital" else ch.lower()
NormCase(ch, is_capital) == IF is_capital = "capital" THEN Upper(ch) ELSE Lower(ch)

\* expected_letter.upper() if is_capital == "capital" else expected_letter.lower()
ExpectedNorm(r) ==
    [i \in 1..Len(r.expected_letter) |-> NormCase(r.expected_letter[i], r.is_capital)]

\* round(conf, 3): ten-thousandths to thousandths (the model's confidences
\* are never half way between two thousandths).
Round3(conf) == (conf + 5) \div 10

\* round(ratio, 3) of match_count / total_alpha, in thousandths (no ratio of
\* fewer than 16 letters is half way between two thousandths).
RoundRatio(m, t) == (2000 * m + t) \div (2 * t)

\* EQUIV.get(exp, {exp}), for the letters of the model alphabet
Equiv(exp) ==
    CASE exp = "o" -> {"o", "O", "0", "c", "C", "q", "Q"}
      [] exp = "O" -> {"o", "O", "0", "C", "Q"}
      [] exp = "c" -> {"c", "C", "o", "O"}
      [] OTHER -> {exp}

Range(s) == {s[i] : i \in 1..Len(s)}
Max(S) == CHOOSE x \in S : \A y \in S : x >= y

\* count[l]: how often letter l was detected
CountOf(ls, l) == Cardinality({i \in 1..Len(ls) : ls[i].letter = l})
\* top_conf[l]: the highest confidence of letter l (0.0 when never detected)
TopConfOf(ls, l) == Max({0} \cup {ls[i].confidence : i \in {j \in 1..Len(ls) : ls[j].letter = l}})

RECURSIVE DictKeys(_)
\* The keys of count / top_conf in insertion order: first detection first.
DictKeys(ls) ==
    IF ls = <<>> THEN <<>>
    ELSE LET rest == DictKeys(SubSeq(ls, 1, Len(ls) - 1))
             l == ls[Len(ls)].letter
         IN  IF l \in Range(rest) THEN rest ELSE Append(rest, l)

\* max(top_conf, key=lambda k: top_conf[k]): the first key, in insertion
\* order, whose value is the maximum.
PrimaryLetter(ls) ==
    LET keys == DictKeys(ls)
        best == Max({TopConfOf(ls, keys[i]) : i \in 1..Len(keys)})
    IN  keys[Min({i \in 1..Len(keys) : TopConfOf(ls, keys[i]) = best})]

\* "sub in s" for strings
Contains(sub, s) ==
    \E i \in 0..(Len(s) - Len(sub)) : SubSeq(s, i + 1, i + Len(sub)) = sub

\* The sort key (-count, -top_confidence): a sorts strictly before b.
SortsBefore(a, b) ==
    \/ a.count > b.count
    \/ a.count = b.count /\ a.top_confidence > b.top_confidence

\* The mismatch list left in dict order.
Unsorted(ms) == ms

RECURSIVE SortMismatches(_)
\* list.sort(key=...): stable, equal keys keep their order.
SortMismatches(ms) ==
    IF ms = <<>> THEN <<>>
    ELSE LET sorted == SortMismatches(SubSeq(ms, 1, Len(ms) - 1))
             x == ms[Len(ms)]
             k == Cardinality({i \in 1..Len(sorted) : ~ SortsBefore(x, sorted[i])})
         IN  SubSeq(sorted, 1, k) \o <<x>> \o SubSeq(sorted, k + 1, Len(sorted))

RECURSIVE AllEntries(_, _, _)
\* An entry for every detected letter, expected or not.
AllEntries(keys, ls, expected) ==
    IF keys = <<>> THEN <<>>
    ELSE <<[letter |-> Head(keys), count |-> CountOf(ls, Head(keys)),
            top_confidence |-> TopConfOf(ls, Head(keys))]>>
         \o AllEntries(Tail(keys), ls, expected)

\* The mismatch entries of the detected letters outside `expected`, in dict order.
RECURSIVE MismatchEntries(_, _, _)
MismatchEntries(keys, ls, expected) ==
    IF keys = <<>> THEN <<>>
    ELSE LET k == Head(keys)
             tail == MismatchEntries(Tail(keys), ls, expected)
         IN  IF k \in expected THEN tail
             ELSE <<[letter |-> k, count |-> CountOf(ls, k),
                     top_confidence |-> TopConfOf(ls, k)]>> \o tail

Missing(l) == [letter |-> l, count |-> 1, top_confidence |-> 0]

Digit == <<"0", "1", "2", "3", "4", "5", "6", "7", "8", "9">>
\* f"{conf:.2f}" of a confidence in thousandths
Fmt2(c) ==
    LET q == c \div 10
        r == c % 10
        h == IF r > 5 \/ (r = 5 /\ q % 2 = 1) THEN q + 1 ELSE q
    IN  Digit[(h \div 100) + 1] \o "." \o Digit[((h \div 10) % 10) + 1] \o Digit[(h % 10) + 1]

NoResult == [mode |-> "none"]

\* The early exit when no letter was read.
NothingDetected(r, ls, sq) ==
    [mode |-> r.is_capital \o "-" \o r.level,
     expected_letter |-> ExpectedNorm(r),
     is_correct |-> FALSE,
     reason |-> "No letters detected by OCR.",
     detected_count |-> 0,
     match_count |-> 0,
     top_match_confidence |-> 0,
     match_ratio |-> 0,
     sequence |-> sq,
     sequence_match |-> FALSE,
     letters |-> ls,
     mismatches |-> <<>>]

\* The dominance test without the ratio.
DominatesAnyMatch(match_count, total_alpha) == match_count >= 1
\* ratio >= MIN_RATIO and match_count >= 1
Dominates(match_count, total_alpha) ==
    1000 * match_count >= MIN_RATIO * total_alpha /\ match_count >= 1

\* The easy reason tree with the dominance test put first.
EasyReasonDominanceFirst(primary_ok, dominates, match_count, primary_allowed, primary_conf) ==
    IF dominates THEN "Expected letter (or equivalent) dominates detections."
    ELSE IF primary_ok
         THEN "Primary letter (or allowed equivalent) matches with strong confidence."
    ELSE IF match_count = 0 THEN "No matching letter detected."
    ELSE IF primary_allowed
         THEN "Low confidence on primary (" \o Fmt2(primary_conf) \o ")."
    ELSE "Expected letter not primary."

\* The easy reason tree without its dominance branch.
EasyReasonNoDominance(primary_ok, dominates, match_count, primary_allowed, primary_conf) ==
    IF primary_ok
    THEN "Primary letter (or allowed equivalent) matches with strong confidence."
    ELSE IF match_count = 0 THEN "No matching letter detected."
    ELSE IF primary_allowed
         THEN "Low confidence on primary (" \o Fmt2(primary_conf) \o ")."
    ELSE "Expected letter not primary."

\* reason = (... if primary_ok else (... if dominance else (... if match_count == 0
\*           else (... if primary_letter in allowed else ...))))
EasyReason(primary_ok, dominates, match_count, primary_allowed, primary_conf) ==
    IF primary_ok
    THEN "Primary letter (or allowed equivalent) matches with strong confidence."
    ELSE IF dominates THEN "Expected letter (or equivalent) dominates detections."
    ELSE IF match_count = 0 THEN "No matching letter detected."
    ELSE IF primary_allowed
         THEN "Low confidence on primary (" \o Fmt2(primary_conf) \o ")."
    ELSE "Expected letter not primary."

\* EASY: one expected letter
ScoreEasy(r, ls, sq) ==
    LET exp == ExpectedNorm(r)[1]
        allowed == Equiv(exp)
        total_alpha == Len(ls)
        matches == {i \in 1..Len(ls) : ls[i].letter \in allowed}
        match_count == Cardinality(matches)
        top == Max({0} \cup {ls[i].confidence : i \in matches})
        primary_letter == PrimaryLetter(ls)
        primary_conf == TopConfOf(ls, primary_letter)
        primary_ok ==
            \/ primary_letter = exp /\ primary_conf >= TOP_CONF_EASY
            \/ /\ primary_letter \in allowed
               /\ primary_letter # exp
               /\ primary_conf >= TOP_CONF_EASY + EQUIV_MARGIN
        dominates == Dominates(match_count, total_alpha)
        mismatches ==
            SortMismatches(MismatchEntries(DictKeys(ls), ls, allowed)
                             \o (IF match_count = 0 THEN <<Missing(exp)>> ELSE <<>>))
        reason == EasyReason(primary_ok, dominates, match_count,
                             primary_letter \in allowed, primary_conf)
    IN  [mode |-> r.is_capital \o "-easy",
         expected_letter |-> <<exp>>,
         is_correct |-> primary_ok \/ dominates,
         reason |-> reason,
         detected_count |-> total_alpha,
         match_count |-> match_count,
         top_match_confidence |-> top,
         match_ratio |-> RoundRatio(match_count, total_alpha),
         sequence |-> sq,
         sequence_match |-> Contains(<<exp>>, sq),
         letters |-> ls,
         mismatches |-> mismatches]

\* sequence_ok relaxed to "both present", as the comment in the code offers.
SequenceOkRelaxed(exp1, exp2, ls, sq) == CountOf(ls, exp1) >= 1 /\ CountOf(ls, exp2) >= 1
\* sequence_ok = (exp1 + exp2 in seq)
SequenceOk(exp1, exp2, ls, sq) == Contains(<<exp1, exp2>>, sq)

OrderReason(exp1, exp2) ==
    "Letters not detected in the required order '" \o exp1 \o exp2 \o "'."

\* The reason tree with the order test put first.
HardReasonOrderFirst(both_present, sequence_ok, conf_ok, ratio_ok, exp1, exp2) ==
    IF ~ sequence_ok THEN OrderReason(exp1, exp2)
    ELSE IF ~ both_present THEN "Both letters must be present at least once."
    ELSE IF conf_ok THEN "Both letters detected with strong confidence."
    ELSE IF ratio_ok THEN "Expected pair dominates the detections."
    ELSE "Low confidence and low ratio for the expected pair."

\* if not both_present ... elif not sequence_ok ... elif conf_ok ... elif ratio_ok ... else
HardReason(both_present, sequence_ok, conf_ok, ratio_ok, exp1, exp2) ==
    IF ~ both_present THEN "Both letters must be present at least once."
    ELSE IF ~ sequence_ok THEN OrderReason(exp1, exp2)
    ELSE IF conf_ok THEN "Both letters detected with strong confidence."
    ELSE IF ratio_ok THEN "Expected pair dominates the detections."
    ELSE "Low confidence and low ratio for the expected pair."

\* HARD: two expected letters, order required
ScoreHard(r, ls, sq) ==
    LET exp1 == ExpectedNorm(r)[1]
        exp2 == ExpectedNorm(r)[2]
        total_alpha == Len(ls)
        c1 == CountOf(ls, exp1)
        c2 == CountOf(ls, exp2)
        top1 == TopConfOf(ls, exp1)
        top2 == TopConfOf(ls, exp2)
        total_matches == c1 + c2
        sequence_ok == SequenceOk(exp1, exp2, ls, sq)
        both_present == c1 >= 1 /\ c2 >= 1
        conf_ok == Min({top1, top2}) >= TOP_CONF_EASY
        ratio_ok == 1000 * total_matches >= MIN_RATIO * total_alpha
        mismatches ==
            SortMismatches(MismatchEntries(DictKeys(ls), ls, {exp1, exp2})
                             \o (IF c1 = 0 THEN <<Missing(exp1)>> ELSE <<>>)
                             \o (IF c2 = 0 THEN <<Missing(exp2)>> ELSE <<>>))
        reason == HardReason(both_present, sequence_ok, conf_ok, ratio_ok, exp1, exp2)
    IN  [mode |-> r.is_capital \o "-hard",
         expected_letter |-> <<exp1, exp2>>,
         is_correct |-> both_present /\ sequence_ok /\ (conf_ok \/ ratio_ok),
         reason |-> reason,
         detected_count |-> total_alpha,
         match_count |-> total_matches,
         top_match_confidence |-> Min({top1, top2}),
         top_match_confidence_per_letter |-> <<top1, top2>>,
         match_ratio |-> RoundRatio(total_matches, total_alpha),
         sequence |-> sq,
         sequence_match |-> sequence_ok,
         letters |-> ls,
         mismatches |-> mismatches]

\* The scorer proper: everything after the extraction loop.
ScoreOf(r, ls, sq) ==
    IF Len(ls) = 0 THEN NothingDetected(r, ls, sq)
    ELSE IF r.level = "easy" THEN ScoreEasy(r, ls, sq)
    ELSE ScoreHard(r, ls, sq)

RECURSIVE LettersOf(_, _)
\* The letters list the symbol loop builds from a list of OCR symbols.
LettersOf(syms, is_capital) ==
    IF syms = <<>> THEN <<>>
    ELSE LET sym == syms[Len(syms)]
             before == LettersOf(SubSeq(syms, 1, Len(syms) - 1), is_capital)
         IN  IF KeepsSymbol(sym.text)
             THEN Append(before, [letter |-> NormCase(sym.text, is_capital),
                                  confidence |-> Round3(sym.confidence)])
             ELSE before

RECURSIVE SeqCharsOf(_, _)
\* The seq_chars list the symbol loop builds from a list of OCR symbols.
SeqCharsOf(syms, is_capital) ==
    IF syms = <<>> THEN <<>>
    ELSE LET sym == syms[Len(syms)]
             before == SeqCharsOf(SubSeq(syms, 1, Len(syms) - 1), is_capital)
         IN  IF KeepsSymbol(sym.text) /\ sym.confidence >= 10 * MIN_CONF_SYMBOL
             THEN Append(before, NormCase(sym.text, is_capital))
             ELSE before

\* What the OCR provider may answer for one symbol: text and confidence in
\* ten-thousandths.  2996 and 6996 round to 0.300 and 0.700.
OcrSymbols ==
    {[text |-> "a", confidence |-> 9000], [text |-> "a", confidence |-> 5000],
     [text |-> "A", confidence |-> 2996],
     [text |-> "c", confidence |-> 9000], [text |-> "C", confidence |-> 6996],
     [text |-> "o", confidence |-> 7000], [text |-> "o", confidence |-> 5000],
     [text |-> "1", confidence |-> 9000], [text |-> "e_acute", confidence |-> 9000]}

\* The validated requests tried.
ScoreRequests ==
    {[expected_letter |-> <<"a">>, is_capital |-> "capital", level |-> "easy"],
     [expected_letter |-> <<"O">>, is_capital |-> "small", level |-> "easy"],
     [expected_letter |-> <<"o">>, is_capital |-> "capital", level |-> "easy"],
     [expected_letter |-> <<"c">>, is_capital |-> "capital", level |-> "easy"],
     [expected_letter |-> <<"a", "c">>, is_capital |-> "small", level |-> "hard"],
     [expected_letter |-> <<"C", "o">>, is_capital |-> "capital", level |-> "hard"],
     [expected_letter |-> <<"a", "a">>, is_capital |-> "capital", level |-> "hard"]}

NoRequest == [expected_letter |-> <<>>, is_capital |-> "", level |-> ""]

\* No scorer call in progress.
ScorerIdle ==
    /\ request = NoRequest
    /\ symbols = <<>>
    /\ letters = <<>>
    /\ seq_chars = <<>>
    /\ result = NoResult

\* The store with empty tables and no call in progress.
StoreIdle ==
    /\ sentence_jumbling = {} /\ reading_speed = {} /\ dyslexia_myths = {}
    /\ sentence_cursors = {} /\ reading_speed_cursors = {} /\ myth_cursors = {}
    /\ locks = {}
    /\ pc = [p \in Procs |-> "idle"]
    /\ call = [p \in Procs |-> NoCall]
    /\ fetched = [p \in Procs |-> <<>>]
    /\ pending = [p \in Procs |-> <<>>]
    /\ conn = [p \in Procs |-> FreshConn]
    /\ ret = [p \in Procs |-> NoRet]
    /\ atLock = [p \in Procs |-> CursorDefault]
    /\ seen = [p \in Procs |-> CursorDefault]
    /\ lastServed = [k \in Keys |-> CursorDefault]

\* detect_handwritten_letters_from_base64 is entered with a validated request
\* and the OCR answer has arrived; no symbol has been read yet.
ScorerInit ==
    /\ request \in ScoreRequests
    /\ symbols = <<>>
    /\ letters = <<>>
    /\ seq_chars = <<>>
    /\ result = NoResult

\* One pass of the symbol loop.
ReadSymbol ==
    /\ result = NoResult
    /\ Len(symbols) < MaxDet
    /\ \E sym \in OcrSymbols :
          LET ch == NormCase(sym.text, request.is_capital) IN
          /\ symbols' = Append(symbols, sym)
          /\ IF KeepsSymbol(sym.text)
             THEN /\ letters' = Append(letters,
                                       [letter |-> ch, confidence |-> Round3(sym.confidence)])
                  /\ seq_chars' = IF sym.confidence >= 10 * MIN_CONF_SYMBOL
                                  THEN Append(seq_chars, ch) ELSE seq_chars
             ELSE UNCHANGED <<letters, seq_chars>>
    /\ UNCHANGED <<request, result, storeVars, apiVars, labelVars, envVars>>

\* The loop is over: the statistics, the verdict, the returned dict.
Score ==
    /\ result = NoResult
    /\ result' = ScoreOf(request, letters, seq_chars)
    /\ UNCHANGED <<request, symbols, letters, seq_chars, storeVars, apiVars, labelVars, envVars>>

\* ================================================================ HTTP routes
NoExc == [type |-> "none", status_code |-> 0, detail |-> ""]
NoResponse == [status_code |-> 0, status |-> "", error |-> "", data |-> <<>>]
NoHttp == [endpoint |-> "none"]
NoCalls == [ocr |-> 0, db |-> 0, chat |-> 0]

\* No HTTP request is being served.
ApiIdle ==
    /\ http = NoHttp
    /\ stage = "idle"
    /\ exc = NoExc
    /\ inner = NoExc
    /\ response = NoResponse
    /\ calls = NoCalls

\* The deployment sets both admin credentials.
EnvConfigured ==
    /\ ADMIN_USERNAME = "admin"
    /\ ADMIN_PASSWORD = "secret"
\* Any deployment: each of the two variables set or not.
EnvAny ==
    /\ ADMIN_USERNAME \in {"admin", ""}
    /\ ADMIN_PASSWORD \in {"secret", ""}

\* raise HTTPException(status_code=..., detail=...)
HTTPException(status_code, detail) ==
    [type |-> "HTTPException", status_code |-> status_code, detail |-> detail]
\* Any exception that is no HTTPException, with its str().
OtherException(type, text) == [type |-> type, status_code |-> 0, detail |-> text]

\* The status codes of the service, printed.
StatusText(n) ==
    CASE n = 400 -> "400" [] n = 401 -> "401" [] n = 403 -> "403" [] n = 404 -> "404"
      [] n = 500 -> "500" [] n = 502 -> "502" [] OTHER -> "?"
\* str(e): an HTTPException prints as "<status_code>: <detail>".
StrOf(e) ==
    IF e.type = "HTTPException" THEN StatusText(e.status_code) \o ": " \o e.detail
    ELSE e.detail

RECURSIVE LStrip(_)
LStrip(s) == IF s # <<>> /\ Head(s) = " " THEN LStrip(Tail(s)) ELSE s
RECURSIVE RStrip(_)
RStrip(s) ==
    IF s # <<>> /\ s[Len(s)] = " " THEN RStrip(SubSeq(s, 1, Len(s) - 1)) ELSE s
\* str.strip() on a sequence of characters
Strip(s) == RStrip(LStrip(s))

\* b64_image.split(",", 1)[1] when a comma is present, then all whitespace removed
CleanImage(img) ==
    LET commas == {i \in 1..Len(img) : img[i] = ","}
        payload == IF commas = {} THEN img ELSE SubSeq(img, Min(commas) + 1, Len(img))
    IN  SelectSeq(payload, LAMBDA ch : ch # " ")

\* base64.b64decode(s, validate=True) succeeds: only alphabet characters ("Q"
\* stands for them), at most two "=" and only at the end, length a multiple of 4.
B64Decodes(s) ==
    LET pads == {i \in 1..Len(s) : s[i] = "="} IN
    /\ \A i \in 1..Len(s) : s[i] \in {"Q", "="}
    /\ Cardinality(pads) <= 2
    /\ \A i \in pads : i > Len(s) - Cardinality(pads)
    /\ Len(s) % 4 = 0

\* The detail of the 400 the detector raises for a body, "" when validation
\* passes; the checks in the order of the code.
DetectorValidation(b) ==
    IF Strip(b.expected_letter) = <<>> THEN "expected_letter is required"
    ELSE IF b.is_capital \notin {"capital", "small"}
    THEN "is_capital must be 'capital' or 'small'"
    ELSE IF b.level \notin {"easy", "hard"} THEN "level must be 'easy' or 'hard'"
    ELSE IF \E i \in 1..Len(Strip(b.expected_letter)) : ~ IsAlpha(Strip(b.expected_letter)[i])
    THEN "expected_letter must be letters only"
    ELSE IF b.level = "easy" /\ Len(Strip(b.expected_letter)) # 1
    THEN "For 'easy', expected_letter must be exactly 1 letter"
    ELSE IF b.level = "hard" /\ Len(Strip(b.expected_letter)) # 2
    THEN "For 'hard', expected_letter must be exactly 2 letters, e.g. 'ab'"
    ELSE IF CleanImage(b.canvas_input) = <<>> THEN "Empty base64 image"
    ELSE IF ~ B64Decodes(CleanImage(b.canvas_input)) THEN "Invalid base64 image"
    ELSE ""

\* (req.level or "").strip(), for the level strings tried
StripLevel(l) == CASE l = " " -> "" [] l = " Hard " -> "Hard" [] OTHER -> l
\* .strip().capitalize(), for the level strings tried
StripCapitalize(l) ==
    CASE l = " " -> "" [] l = "easy" -> "Easy" [] l = " EASY " -> "Easy" [] OTHER -> l

\* get_parent_answer(question, kb_hit=None) takes two arguments;
\* parent_chat passes question, kb_hit and api_key.
ParentAnswerParams == 2
ParentChatArgs == 3
\* fetch_next_myth_row(batch_size=10)
RouteBatchSize == 10

\* The worker that runs the store call of the request being served.
Worker == Min(Procs)

GoodBody ==
    [canvas_input |-> <<"Q", "Q", "=", "=">>, expected_letter |-> <<"a">>,
     is_capital |-> "capital", level |-> "easy"]
\* The CanvasInput bodies tried: a good one, and variants of each field.
CanvasBodies ==
    {[GoodBody EXCEPT !.canvas_input = c] :
        c \in {<<>>, <<" ">>, <<"h", ",">>, <<"h", ",", "Q", "Q", "=", "=">>,
               <<"Q", "Q", " ", "=", "=">>, <<"Q", "!", "=", "=">>, <<"Q", "Q", "Q">>}}
    \cup {[GoodBody EXCEPT !.expected_letter = e] :
        e \in {<<>>, <<" ">>, <<" ", "a", " ">>, <<"a", "1">>, <<"a", "c">>, <<"e_acute">>}}
    \cup {[GoodBody EXCEPT !.is_capital = c] : c \in {"small", "Capital", ""}}
    \cup {[GoodBody EXCEPT !.level = l, !.expected_letter = e] :
        l \in {"hard", "medium"}, e \in {<<"a">>, <<"a", "c">>}}

\* The "level" of a /reading_speed body: a string, absent, null or a number.
ReadingLevelValues ==
    {[kind |-> "str", value |-> v] : v \in {"Easy", "easy", " EASY ", "Medium", "Expert", " "}}
    \cup {[kind |-> k, value |-> ""] : k \in {"missing", "null", "int"}}

\* The basic-auth credentials a request carries: the right pair, a wrong
\* username, a wrong password, and the empty pair.
Credentials ==
    {[username |-> "admin", password |-> "secret"], [username |-> "guest", password |-> "secret"],
     [username |-> "admin", password |-> "wrong"], [username |-> "", password |-> ""]}

HttpRequests ==
    {[endpoint |-> "/alphabet_mastery", credentials |-> c, body |-> b] :
        c \in Credentials, b \in CanvasBodies}
    \cup {[endpoint |-> "/sentence/next", credentials |-> c, body |-> [level |-> l]] :
        c \in Credentials, l \in {"Easy", " Hard ", "", " ", "Medium"}}
    \cup {[endpoint |-> "/myth/next", credentials |-> c, body |-> [level |-> ""]] :
        c \in Credentials}
    \cup {[endpoint |-> "/reading_speed", credentials |-> c, body |-> [level |-> l]] :
        c \in Credentials, l \in ReadingLevelValues}
    \cup {[endpoint |-> "/parent_chat", credentials |-> c,
           body |-> [question |-> "q", kb_hit |-> k, model |-> m]] :
        c \in Credentials, k \in {"None", "hit"}, m \in {"answers", "fails"}}
    \cup {[endpoint |-> "/image_labeling/next", credentials |-> c, body |-> [level |-> ""]] :
        c \in Credentials}
    \cup {[endpoint |-> "/api/health", credentials |-> c, body |-> [level |-> ""]] :
        c \in Credentials}

\* The symbol lists the OCR provider answers with in the route model.
OcrAnswers ==
    {<<>>,
     <<[text |-> "a", confidence |-> 9000]>>,
     <<[text |-> "c", confidence |-> 9000], [text |-> "a", confidence |-> 9000]>>}

\* The routes declared with Depends(get_current_username).
SecuredEndpoints ==
    {"/alphabet_mastery", "/sentence/next", "/image_labeling/next", "/myth/next",
     "/parent_chat", "/reading_speed"}

\* The username alone is compared.
UsernameMatches(credentials, username, password) == credentials.username = username
\* compare_digest(username_bytes, ...) and compare_digest(password_bytes, ...)
CredentialsMatch(credentials, username, password) ==
    /\ credentials.username = username
    /\ credentials.password = password

\* A request arrives; a route without the dependency runs at once.
Receive ==
    /\ stage = "idle"
    /\ \E r \in HttpRequests :
          /\ http' = r
          /\ stage' = IF r.endpoint \in SecuredEndpoints THEN "auth" ELSE "route"
    /\ UNCHANGED <<exc, inner, response, calls, scorerVars, storeVars, labelVars, envVars>>

\* Depends(get_current_username)
Authenticate ==
    /\ stage = "auth"
    /\ IF ADMIN_USERNAME = "" \/ ADMIN_PASSWORD = ""
       THEN /\ exc' = HTTPException(500, "Server misconfiguration: missing admin credentials.")
            /\ stage' = "exception_handler"
       ELSE IF CredentialsMatch(http.credentials, ADMIN_USERNAME, ADMIN_PASSWORD)
       THEN stage' = "route" /\ UNCHANGED exc
       ELSE /\ exc' = HTTPException(401, "Invalid username or password")
            /\ stage' = "exception_handler"
    /\ UNCHANGED <<http, inner, response, calls, scorerVars, storeVars, labelVars, envVars>>

\* An exception leaves a statement inside the route's try block.
RaiseInTry(e) ==
    /\ exc' = e
    /\ inner' = e
    /\ stage' = "caught"
\* An exception leaves the route function itself.
RaiseFromRoute(e) ==
    /\ exc' = e
    /\ stage' = "exception_handler"
    /\ UNCHANGED inner

\* api_key = get_gcv_api_key() without GCV_API_KEY in the environment
MissingApiKey == RaiseFromRoute(HTTPException(500, "Missing GCV_API_KEY configuration"))

\* read_canvas_input up to the call of the OCR provider: the detector's
\* validation and the preprocessing of the image.
ReadCanvasInput ==
    /\ stage = "route"
    /\ http.endpoint = "/alphabet_mastery"
    /\ \/ MissingApiKey
       \/ /\ DetectorValidation(http.body) # ""
          /\ RaiseInTry(HTTPException(400, DetectorValidation(http.body)))
       \/ /\ DetectorValidation(http.body) = ""
          /\ \/ RaiseInTry(OtherException("Exception", "cannot identify image file"))
             \/ stage' = "ocr" /\ UNCHANGED <<exc, inner>>
    /\ UNCHANGED <<http, response, calls, scorerVars, storeVars, labelVars, envVars>>

\* requests.post(...) and everything after it in the detector.
CallVision ==
    /\ stage = "ocr"
    /\ calls' = [calls EXCEPT !.ocr = @ + 1]
    /\ \/ /\ RaiseInTry(HTTPException(502, "Vision API request failed: timeout"))
          /\ UNCHANGED <<response, scorerVars>>
       \/ /\ RaiseInTry(HTTPException(502, "Vision API error"))
          /\ UNCHANGED <<response, scorerVars>>
       \/ \E syms \in OcrAnswers :
             /\ request' = [expected_letter |-> Strip(http.body.expected_letter),
                            is_capital |-> http.body.is_capital, level |-> http.body.level]
             /\ symbols' = syms
             /\ letters' = LettersOf(syms, http.body.is_capital)
             /\ seq_chars' = SeqCharsOf(syms, http.body.is_capital)
             /\ result' = ScoreOf(request', letters', seq_chars')
             /\ response' = [status_code |-> 200, status |-> "success", error |-> "",
                             data |-> <<>>]
             /\ stage' = "responded"
             /\ UNCHANGED <<exc, inner>>
    /\ UNCHANGED <<http, storeVars, labelVars, envVars>>

\* The route opens its store call: fetch_next_*_row is entered and connects.
OpenStoreCall(c) ==
    /\ pc[Worker] = "idle"
    /\ call' = [call EXCEPT ![Worker] = c]
    /\ pc' = [pc EXCEPT ![Worker] = "lock"]
    /\ calls' = [calls EXCEPT !.db = @ + 1]
    /\ stage' = "store"
    /\ UNCHANGED <<contentVars, cursorVars, locks, fetched, pending, conn, ret, atLock, seen,
                   lastServed, exc, inner>>

\* get_db_connection() without the DB_* variables in the environment
MissingDbConfig == OtherException("KeyError", "'DB_HOST'")

\* sentence_next up to the store call
SentenceNext ==
    /\ stage = "route"
    /\ http.endpoint = "/sentence/next"
    /\ IF StripLevel(http.body.level) = ""
       THEN /\ RaiseFromRoute(HTTPException(400, "level is required"))
            /\ UNCHANGED <<calls, storeVars>>
       ELSE \/ RaiseInTry(MissingDbConfig) /\ UNCHANGED <<calls, storeVars>>
            \/ OpenStoreCall([fn |-> "sentence", level |-> StripLevel(http.body.level),
                              batch_size |-> 0])
    /\ UNCHANGED <<http, response, scorerVars, labelVars, envVars>>

\* myth_next up to the store call
MythNext ==
    /\ stage = "route"
    /\ http.endpoint = "/myth/next"
    /\ \/ RaiseInTry(MissingDbConfig) /\ UNCHANGED <<calls, storeVars>>
       \/ OpenStoreCall([fn |-> "myth", level |-> MythLock, batch_size |-> RouteBatchSize])
    /\ UNCHANGED <<http, response, scorerVars, labelVars, envVars>>

\* get_reading_passage up to the store call; the route has no try block.
GetReadingPassage ==
    /\ stage = "route"
    /\ http.endpoint = "/reading_speed"
    /\ LET l == http.body.level
           level == IF l.kind = "missing" THEN "" ELSE StripCapitalize(l.value)
       IN  IF l.kind \in {"null", "int"}
           THEN /\ RaiseFromRoute(OtherException("AttributeError", "no attribute 'strip'"))
                /\ UNCHANGED <<calls, storeVars>>
           ELSE IF level \notin {"Easy", "Medium", "Hard"}
           THEN /\ RaiseFromRoute(HTTPException(400, "Level must be Easy, Medium, or Hard"))
                /\ UNCHANGED <<calls, storeVars>>
           ELSE \/ RaiseFromRoute(MissingDbConfig) /\ UNCHANGED <<calls, storeVars>>
                \/ OpenStoreCall([fn |-> "reading", level |-> level, batch_size |-> 0])
    /\ UNCHANGED <<http, response, scorerVars, labelVars, envVars>>

\* The store call runs: lock, select, upsert, commit, or a failure.
StoreStep ==
    /\ stage = "store"
    /\ \/ AcquireLock(Worker)
       \/ Select(Worker)
       \/ Upsert(Worker)
       \/ Commit(Worker)
       \/ Fault(Worker)
       \/ Except(Worker)
    /\ UNCHANGED <<apiVars, scorerVars, labelVars, envVars>>

\* The store call has returned or raised; the rest of the route.
StoreReturned ==
    /\ stage = "store"
    /\ pc[Worker] = "done"
    /\ Return(Worker)
    /\ IF ret[Worker].kind = "raised"
       THEN /\ IF http.endpoint = "/reading_speed"
               THEN RaiseFromRoute(OtherException("Exception", "database failure"))
               ELSE RaiseInTry(OtherException("Exception", "database failure"))
            /\ UNCHANGED response
       ELSE IF ret[Worker].ids = <<>>
       THEN /\ UNCHANGED response
            /\ CASE http.endpoint = "/sentence/next" ->
                      RaiseInTry(HTTPException(404, "No rows found for level '"
                                     \o call[Worker].level \o "'"))
                 [] http.endpoint = "/myth/next" ->
                      RaiseInTry(HTTPException(404, "No myth rows found"))
                 [] OTHER ->
                      RaiseFromRoute(HTTPException(404, "No passage found for level '"
                                         \o call[Worker].level \o "'"))
       ELSE /\ response' = [status_code |-> 200, status |-> "success", error |-> "",
                            data |-> ret[Worker].ids]
            /\ stage' = "responded"
            /\ UNCHANGED <<exc, inner>>
    /\ UNCHANGED <<http, calls, scorerVars, labelVars, envVars>>

\* get_image_labeling: fetch_random_image_row() returns a row, returns None
\* for an empty table, or raises.
GetImageLabeling ==
    /\ stage = "route"
    /\ http.endpoint = "/image_labeling/next"
    /\ \/ /\ response' = [status_code |-> 200, status |-> "success", error |-> "", data |-> <<>>]
          /\ stage' = "responded"
          /\ UNCHANGED <<exc, inner>>
       \/ /\ RaiseInTry(HTTPException(404, "No image_labeling rows found"))
          /\ UNCHANGED response
       \/ /\ RaiseInTry(OtherException("Exception", "database failure"))
          /\ UNCHANGED response
    /\ UNCHANGED <<http, calls, scorerVars, storeVars, labelVars, envVars>>

\* api_health
ApiHealth ==
    /\ stage = "route"
    /\ http.endpoint = "/api/health"
    /\ response' = [status_code |-> 200, status |-> "OK", error |-> "", data |-> <<>>]
    /\ stage' = "responded"
    /\ UNCHANGED <<http, exc, inner, calls, scorerVars, storeVars, labelVars, envVars>>

\* parent_chat
ParentChat ==
    /\ stage = "route"
    /\ http.endpoint = "/parent_chat"
    /\ \/ MissingApiKey /\ UNCHANGED <<response, calls>>
       \/ IF ParentChatArgs > ParentAnswerParams
          THEN /\ RaiseInTry(OtherException("TypeError",
                      "get_parent_answer() takes from 1 to 2 positional arguments but 3 were given"))
               /\ UNCHANGED <<response, calls>>
          ELSE /\ calls' = [calls EXCEPT !.chat = @ + 1]
               /\ IF http.body.model = "answers"
                  THEN /\ response' = [status_code |-> 200, status |-> "success",
                                       error |-> "", data |-> <<>>]
                       /\ stage' = "responded"
                       /\ UNCHANGED <<exc, inner>>
                  ELSE /\ RaiseInTry(OtherException("Exception", "model call failed"))
                       /\ UNCHANGED response
    /\ UNCHANGED <<http, scorerVars, storeVars, labelVars, envVars>>

\* The except clauses of the routes: "except KeyError" where there is one,
\* then "except Exception", which also matches HTTPException.
ExceptClause(endpoint, e) ==
    IF endpoint = "/alphabet_mastery"
    THEN HTTPException(500, "Unexpected error: " \o StrOf(e))
    ELSE IF endpoint = "/parent_chat"
    THEN HTTPException(500, "Chatbot error: " \o StrOf(e))
    ELSE IF e.type = "KeyError"
    THEN HTTPException(500, "Missing DB config: " \o StrOf(e))
    ELSE HTTPException(500, "Database error: " \o StrOf(e))

\* The exception raised in the try block is caught and a new one raised.
Caught ==
    /\ stage = "caught"
    /\ exc' = ExceptClause(http.endpoint, exc)
    /\ stage' = "exception_handler"
    /\ UNCHANGED <<http, inner, response, calls, scorerVars, storeVars, labelVars, envVars>>

\* What custom_http_exception_handler answers for an HTTPException; any
\* other exception leaving a route is the framework's plain 500.
HandlerResponse(e) ==
    IF e.type # "HTTPException"
    THEN [status_code |-> 500, status |-> "", error |-> "Internal Server Error", data |-> <<>>]
    ELSE IF e.status_code = 401
    THEN [status_code |-> 403, status |-> "",
          error |-> "Access denied. Invalid or missing credentials.", data |-> <<>>]
    ELSE [status_code |-> e.status_code, status |-> "", error |-> e.detail, data |-> <<>>]

ExceptionHandler ==
    /\ stage = "exception_handler"
    /\ response' = HandlerResponse(exc)
    /\ exc' = NoExc
    /\ stage' = "responded"
    /\ UNCHANGED <<http, inner, calls, scorerVars, storeVars, labelVars, envVars>>

\* The response is sent; the next request can be served.
Respond ==
    /\ stage = "responded"
    /\ http' = NoHttp
    /\ stage' = "idle"
    /\ exc' = NoExc
    /\ inner' = NoExc
    /\ response' = NoResponse
    /\ calls' = NoCalls
    /\ request' = NoRequest
    /\ symbols' = <<>>
    /\ letters' = <<>>
    /\ seq_chars' = <<>>
    /\ result' = NoResult
    /\ UNCHANGED <<storeVars, labelVars, envVars>>

\* ============================================================ image labels
\* max_attempts = 50  # safety cap
max_attempts == 50

\* str.lower() on a sequence of characters
LowerStr(s) == [i \in 1..Len(s) |-> Lower(s[i])]

\* The jumble is kept whenever it is not the label character for character.
DiffersExactly(shuffled, label) == shuffled # label
\* shuffled.lower() != correct_label.lower()
DiffersIgnoringCase(shuffled, label) == LowerStr(shuffled) # LowerStr(label)

\* What random.shuffle(chars) can leave in chars: any rearrangement.
Shuffles(cs) == {[i \in 1..Len(cs) |-> cs[f[i]]] : f \in Permutations(1..Len(cs))}

\* The labels tried: empty, one character, two different characters, the
\* same letter in both cases, three characters with and without a repeat.
Labels == {<<>>, <<"a">>, <<"a", "c">>, <<"A", "a">>, <<"c", "a", "o">>, <<"a", "a", "c">>}

\* No call of generate_rearranged_labels in progress.
LabelIdle ==
    /\ correct_label = <<>>
    /\ count = 0
    /\ chars = <<>>
    /\ fake_labels = {}
    /\ attempts = 0
    /\ returned = FALSE

\* generate_rearranged_labels(correct_label, count) has set up its locals.
LabelInit ==
    /\ correct_label \in Labels
    /\ count \in 0..MaxCount
    /\ chars = correct_label
    /\ fake_labels = {}
    /\ attempts = 0
    /\ returned = FALSE

\* One pass of the while loop.
ShuffleOnce ==
    /\ ~ returned
    /\ Cardinality(fake_labels) < count
    /\ attempts < max_attempts
    /\ attempts' = attempts + 1
    /\ \E shuffled \in Shuffles(chars) :
          /\ chars' = shuffled
          /\ fake_labels' = IF DiffersIgnoringCase(shuffled, correct_label)
                            THEN fake_labels \cup {shuffled} ELSE fake_labels
    /\ UNCHANGED <<correct_label, count, returned, storeVars, scorerVars, apiVars, envVars>>

\* The loop condition fails: return list(fake_labels).
ReturnLabels ==
    /\ ~ returned
    /\ ~ (Cardinality(fake_labels) < count /\ attempts < max_attempts)
    /\ returned' = TRUE
    /\ UNCHANGED <<correct_label, count, chars, fake_labels, attempts, storeVars, scorerVars,
                   apiVars, envVars>>

\* =========================================================== specifications
\* The single-row stores (sentences, reading passages) under concurrent requests.
Init == StoreInit /\ ScorerIdle /\ ApiIdle /\ LabelIdle /\ EnvConfigured
Next == (\E p \in Procs : CallRow(p) \/ TxnStep(p)) /\ UNCHANGED <<scorerVars, apiVars, labelVars, envVars>>
Spec == Init /\ [][Next]_vars

\* The batch store (myths) under concurrent requests.
NextMyth == (\E p \in Procs : CallBatch(p) \/ TxnStep(p)) /\ UNCHANGED <<scorerVars, apiVars, labelVars, envVars>>
SpecMyth == Init /\ [][NextMyth]_vars

\* All three stores together.
NextAll == (\E p \in Procs : CallRow(p) \/ CallBatch(p) \/ TxnStep(p)) /\ UNCHANGED <<scorerVars, apiVars, labelVars, envVars>>
SpecAll == Init /\ [][NextAll]_vars

NextScore == ReadSymbol \/ Score
InitScore == StoreIdle /\ ScorerInit /\ ApiIdle /\ LabelIdle /\ EnvConfigured
SpecScore == InitScore /\ [][NextScore]_vars

\* The HTTP routes, one request at a time, over the cursor store and the scorer.
NextApi ==
    \/ Receive
    \/ Authenticate
    \/ ReadCanvasInput
    \/ CallVision
    \/ SentenceNext
    \/ MythNext
    \/ GetReadingPassage
    \/ StoreStep
    \/ StoreReturned
    \/ ParentChat
    \/ GetImageLabeling
    \/ ApiHealth
    \/ Caught
    \/ ExceptionHandler
    \/ Respond
InitApi == StoreInit /\ ScorerIdle /\ ApiIdle /\ LabelIdle /\ EnvAny
SpecApi == InitApi /\ [][NextApi]_vars

\* Progress of the store calls.  Every statement a call has sent comes back
\* (with its result or an error) and the function runs on to its return; a
\* call waiting in pg_advisory_xact_lock is granted the lock once it is free,
\* waiters being served in turn, however often others take it meanwhile.
\* New requests are under no obligation to arrive.
otherVars == <<scorerVars, apiVars, labelVars, envVars>>
Progress(p) ==
    (Select(p) \/ Upsert(p) \/ Commit(p) \/ Except(p) \/ Return(p)) /\ UNCHANGED otherVars
Granted(p) == AcquireLock(p) /\ UNCHANGED otherVars
Fairness == \A p \in Procs : WF_vars(Progress(p)) /\ SF_vars(Granted(p))
SpecLive == Spec /\ Fairness

\* One call of generate_rearranged_labels.
NextLabels == ShuffleOnce \/ ReturnLabels
InitLabels == StoreIdle /\ ScorerIdle /\ ApiIdle /\ LabelInit /\ EnvConfigured
SpecLabels == InitLabels /\ [][NextLabels]_vars

\* ================================================================== claims
\* The row that follows cursor value c in the cyclic ascending order of ids:
\* the position after c's, the first position after the last one, and the
\* first position when there is no cursor yet.
NextInCycle(ids, c) ==
    LET s == OrderByAsc(ids)
        after == {j \in 1..Len(s) : s[j] > c}
    IN  IF after = {} THEN s[1] ELSE s[Min(after)]

HoldsLock(p) == \E l \in locks : l.owner = p

\* C1: every row a single-row call returns is a row of the category, the
\* smallest id greater than the cursor the call read, or the smallest id of
\* the category when no id is greater; in the sorted ids it sits one place
\* after the cursor's row, cyclically, and first when there was no cursor.
C1_NextRowCyclic ==
    \A p \in Procs :
        (pc[p] = "done" /\ ret[p].kind = "row") =>
            LET ids == IdsOf(call[p])
                c   == seen[p]
                id  == ret[p].ids[1]
                s   == OrderByAsc(ids)
            IN  /\ Len(ret[p].ids) = 1
                /\ id \in ids
                /\ (\E i \in ids : i > c) => (id > c /\ \A i \in ids : i > c => id <= i)
                /\ (\A i \in ids : i <= c) => (\A i \in ids : id <= i)
                /\ c = CursorDefault => id = s[1]
                /\ \A j \in 1..Len(s) : c = s[j] => id = s[(j % Len(s)) + 1]

\* C1 witness: with rows 1..MaxId a call read the cursor at the last row and
\* wrapped to row 1.
C1_Witness ==
    \E p \in Procs :
        /\ pc[p] = "done" /\ ret[p].kind = "row"
        /\ call[p].fn = "reading"
        /\ IdsOf(call[p]) = 1..MaxId
        /\ seen[p] = MaxId
        /\ ret[p].ids = <<1>>

\* C2: a caller that has selected its row under the key's lock read the
\* cursor left by the last committed serve of that key and holds the row that
\* follows it in the cyclic order, and no other caller holds a row of the same
\* key at the same time: in commit order the serves are the sequential ones.
C2_SerialServe ==
    \A p \in Procs :
        pc[p] \in {"upsert", "commit"} =>
            LET k == KeyOf(call[p]) IN
            /\ seen[p] = lastServed[k]
            /\ fetched[p] = <<NextInCycle(IdsOf(call[p]), lastServed[k])>>
            /\ \A q \in Procs \ {p} :
                   pc[q] \in {"upsert", "commit"} => KeyOf(call[q]) # k

\* C2 witness: one caller waits for the lock of a key while another, which
\* read the cursor a third serve left, is about to commit the next row.
C2_Witness ==
    \E p, q \in Procs :
        /\ p # q
        /\ call[p] = call[q]
        /\ Cardinality(IdsOf(call[p])) > 1
        /\ pc[q] = "lock"
        /\ pc[p] = "commit"
        /\ seen[p] # CursorDefault
        /\ fetched[p] # <<seen[p]>>

\* C3: a call whose category has no rows leaves its select with no row
\* (None, or [] for the batch), one rollback, no commit, and every cursor
\* table as it was.
C3_EmptyCategory ==
    [][\A p \in Procs :
          (pc[p] = "select" /\ IdsOf(call[p]) = {} /\ pc'[p] # "select") =>
              \/ pc'[p] = "except"
              \/ /\ pc'[p] = "done"
                 /\ ret'[p].ids = <<>>
                 /\ ret'[p].kind = (IF call[p].fn = "myth" THEN "empty" ELSE "None")
                 /\ conn'[p].rollbacks = 1
                 /\ conn'[p].commits = 0
                 /\ cursorVars' = cursorVars
                 /\ pending'[p] = <<>>]_vars

\* C3 witness: a call on the empty "Hard" level returned None while the
\* cursor table holds the row of another level.
C3_Witness ==
    \E p \in Procs :
        /\ pc[p] = "done"
        /\ call[p].fn = "sentence"
        /\ IdsOf(call[p]) = {}
        /\ ret[p].kind = "None"
        /\ conn[p].rollbacks = 1
        /\ sentence_cursors # {}

\* C4: while a call holds its lock the stored cursor of its key is the one it
\* found when it got the lock, whatever it has written in its transaction;
\* and when a statement has raised, the call ends raising, with one rollback,
\* no commit, nothing left pending and every cursor table unchanged.
C4_FailureAtomic ==
    [][\A p \in Procs :
          /\ (HoldsLock(p) /\ pc[p] \in {"select", "upsert", "commit", "except"}) =>
                 Coalesce(CurOf(call[p])) = atLock[p]
          /\ (pc[p] = "except" /\ pc'[p] # "except") =>
                 /\ pc'[p] = "done"
                 /\ ret'[p].kind = "raised"
                 /\ conn'[p].rollbacks = 1
                 /\ conn'[p].commits = 0
                 /\ conn'[p].closed
                 /\ pending'[p] = <<>>
                 /\ cursorVars' = cursorVars]_vars

\* C4 witness: a call raised after its rollback, holding no lock, and the
\* stored cursor of its key is the one the last committed serve set.
C4_Witness ==
    \E p \in Procs :
        /\ pc[p] = "done"
        /\ ret[p].kind = "raised"
        /\ conn[p] = [commits |-> 0, rollbacks |-> 1, closed |-> TRUE]
        /\ ~ HoldsLock(p)
        /\ CurOf(call[p]) # {}
        /\ Coalesce(CurOf(call[p])) = lastServed[KeyOf(call[p])]

\* C5: a batch call that is about to commit holds at most batch_size rows and
\* has set the cursor to the id of the last of them.
C5_BatchAtMostN ==
    \A p \in Procs :
        (pc[p] = "commit" /\ call[p].fn = "myth") =>
            /\ Len(fetched[p]) <= call[p].batch_size
            /\ pending[p] = <<fetched[p][Len(fetched[p])]>>

\* ---------------------------------------------------------------- scorer claims
Scored == result # NoResult
\* The indices of the OCR symbols that are ASCII letters.
AsciiLetterSymbols == {i \in 1..Len(symbols) : IsAlpha(symbols[i].text) /\ IsAscii(symbols[i].text)}
\* The expected answer in the selected case.
Expected == ExpectedNorm(request)
\* The OCR symbols, in the selected case, that are the letter l.
SymbolsOf(l) == {i \in AsciiLetterSymbols : NormCase(symbols[i].text, request.is_capital) = l}

C7_TopIsExpected ==
    (Scored /\ request.level = "easy") =>
        ((\E i \in SymbolsOf(Expected[1]) :
             /\ symbols[i].confidence >= 10 * TOP_CONF_EASY
             /\ \A j \in AsciiLetterSymbols : symbols[j].confidence <= symbols[i].confidence)
         => result.is_correct = TRUE)

\* What does hold: a detection of the expected character whose recorded
\* confidence is at least 0.70 and strictly above that of every other letter.
C7_StrictlyTop ==
    (Scored /\ request.level = "easy") =>
        ((\E i \in SymbolsOf(Expected[1]) :
             /\ Round3(symbols[i].confidence) >= TOP_CONF_EASY
             /\ \A j \in AsciiLetterSymbols \ SymbolsOf(Expected[1]) :
                   Round3(symbols[j].confidence) < Round3(symbols[i].confidence))
         => result.is_correct = TRUE)

OneAbsent == SymbolsOf(Expected[1]) = {} \/ SymbolsOf(Expected[2]) = {}

C10_OrderRequired ==
    (Scored /\ request.level = "hard") =>
        LET highConf == SelectSeq(symbols,
                           LAMBDA sym : /\ IsAlpha(sym.text) /\ IsAscii(sym.text)
                                        /\ sym.confidence >= 10 * MIN_CONF_SYMBOL)
            shown == [i \in 1..Len(highConf) |-> NormCase(highConf[i].text, request.is_capital)]
        IN  (/\ SymbolsOf(Expected[1]) # {}
             /\ SymbolsOf(Expected[2]) # {}
             /\ ~ \E i \in 1..(Len(shown) - 1) :
                     shown[i] = Expected[1] /\ shown[i + 1] = Expected[2])
            => /\ result.is_correct = FALSE
               /\ result.reason = OrderReason(Expected[1], Expected[2])

\* Expected "ac": c then a, both at 0.90.
C10_Witness ==
    /\ Scored
    /\ request.level = "hard"
    /\ Expected = <<"a", "c">>
    /\ letters = <<[letter |-> "c", confidence |-> 900], [letter |-> "a", confidence |-> 900]>>
    /\ result.sequence = <<"c", "a">>
    /\ result.is_correct = FALSE
    /\ result.reason = "Letters not detected in the required order 'ac'."

\* The letters of the OCR symbols with confidence at least 0.30, in reading
\* order and in the selected case.
HighConfSequence ==
    LET kept == SelectSeq(symbols,
                    LAMBDA sym : /\ IsAlpha(sym.text) /\ IsAscii(sym.text)
                                 /\ sym.confidence >= 10 * MIN_CONF_SYMBOL)
    IN  [i \in 1..Len(kept) |-> NormCase(kept[i].text, request.is_capital)]
\* The pair e1 e2 stands somewhere in the high-confidence sequence.
Adjacent(e1, e2) ==
    \E i \in 1..(Len(HighConfSequence) - 1) :
        HighConfSequence[i] = e1 /\ HighConfSequence[i + 1] = e2
\* The highest recorded confidence of the detections of letter l, 0 without one.
TopOf(l) == Max({0} \cup {Round3(symbols[i].confidence) : i \in SymbolsOf(l)})

\* C11 as stated: in hard mode is_correct is true exactly when both expected
\* characters are detected, they stand adjacent in the required order in the
\* high-confidence sequence, and either each one's top confidence reaches
\* 0.70 or the detections of the pair are at least 0.60 of all detected
\* letters.
C11_HardVerdict ==
    (Scored /\ request.level = "hard") =>
        LET pair == SymbolsOf(Expected[1]) \cup SymbolsOf(Expected[2]) IN
        result.is_correct =
            (/\ SymbolsOf(Expected[1]) # {}
             /\ SymbolsOf(Expected[2]) # {}
             /\ Adjacent(Expected[1], Expected[2])
             /\ \/ TopOf(Expected[1]) >= TOP_CONF_EASY /\ TopOf(Expected[2]) >= TOP_CONF_EASY
                \/ 1000 * Cardinality(pair) >= MIN_RATIO * Cardinality(AsciiLetterSymbols))

\* The same equivalence for an answer of two different letters, where it holds.
C11_DistinctLetters ==
    (Scored /\ request.level = "hard" /\ Expected[1] # Expected[2]) =>
        LET pair == SymbolsOf(Expected[1]) \cup SymbolsOf(Expected[2]) IN
        result.is_correct =
            (/\ SymbolsOf(Expected[1]) # {}
             /\ SymbolsOf(Expected[2]) # {}
             /\ Adjacent(Expected[1], Expected[2])
             /\ \/ TopOf(Expected[1]) >= TOP_CONF_EASY /\ TopOf(Expected[2]) >= TOP_CONF_EASY
                \/ 1000 * Cardinality(pair) >= MIN_RATIO * Cardinality(AsciiLetterSymbols))

\* C15: in every result the mismatch list is ordered by descending count
\* and, among equal counts, by descending top confidence.
C15_MismatchesSorted ==
    Scored =>
        \A i \in 1..Len(result.mismatches) : \A j \in 1..Len(result.mismatches) :
            i < j =>
                \/ result.mismatches[i].count > result.mismatches[j].count
                \/ /\ result.mismatches[i].count = result.mismatches[j].count
                   /\ result.mismatches[i].top_confidence >= result.mismatches[j].top_confidence

\* Expected "A"; o at 0.50 is read before c at 0.90 twice.
C15_Witness ==
    /\ Scored
    /\ request.level = "easy"
    /\ Expected = <<"A">>
    /\ Len(symbols) = 3
    /\ symbols[1] = [text |-> "o", confidence |-> 5000]
    /\ result.mismatches = <<[letter |-> "C", count |-> 2, top_confidence |-> 900],
                             [letter |-> "O", count |-> 1, top_confidence |-> 500],
                             [letter |-> "A", count |-> 1, top_confidence |-> 0]>>

\* The letters detected, in the selected case.
DetectedLetters == {NormCase(symbols[i].text, request.is_capital) : i \in AsciiLetterSymbols}
\* The highest recorded confidence of any detected letter.
BestConf == Max({0} \cup {TopOf(l) : l \in DetectedLetters})
\* The primary letter: of the letters whose top confidence is the highest,
\* the one detected first.
Primary ==
    LET best == BestConf
        top == {l \in DetectedLetters : TopOf(l) = best}
    IN  CHOOSE l \in top : \A m \in top : Min(SymbolsOf(l)) <= Min(SymbolsOf(m))
\* Easy mode: the detections of the expected letter or an allowed equivalent.
EasyMatches == UNION {SymbolsOf(l) : l \in Equiv(Expected[1])}
StrongPrimary ==
    \/ Primary = Expected[1] /\ BestConf >= TOP_CONF_EASY
    \/ /\ Primary \in Equiv(Expected[1]) \ {Expected[1]}
       /\ BestConf >= TOP_CONF_EASY + EQUIV_MARGIN
EasyDominance ==
    /\ 1000 * Cardinality(EasyMatches) >= MIN_RATIO * Cardinality(AsciiLetterSymbols)
    /\ EasyMatches # {}
\* Hard mode: both letters strong; the pair's ratio as the code computes it.
StrongPair == TopOf(Expected[1]) >= TOP_CONF_EASY /\ TopOf(Expected[2]) >= TOP_CONF_EASY
PairDominance ==
    1000 * (Cardinality(SymbolsOf(Expected[1])) + Cardinality(SymbolsOf(Expected[2])))
        >= MIN_RATIO * Cardinality(AsciiLetterSymbols)
BothPresent == SymbolsOf(Expected[1]) # {} /\ SymbolsOf(Expected[2]) # {}

C16_WitnessEasy ==
    /\ Scored
    /\ request.level = "easy"
    /\ result.reason = "Low confidence on primary (0.50)."

\* The other case of a letter; other characters are left alone.
FlipCase(ch) == IF Upper(ch) # ch THEN Upper(ch) ELSE Lower(ch)
IsUpperCase(ch) == Lower(ch) # ch
IsLowerCase(ch) == Upper(ch) # ch
InSelectedCase(ch) ==
    IF request.is_capital = "capital" THEN IsUpperCase(ch) ELSE IsLowerCase(ch)

RECURSIVE SumCounts(_)
SumCounts(ms) == IF ms = <<>> THEN 0 ELSE Head(ms).count + SumCounts(Tail(ms))

\* The expected set: the expected letter with its allowed equivalents in
\* easy mode, the two expected letters in hard mode.
ExpectedSet ==
    IF request.level = "easy" THEN Equiv(Expected[1]) ELSE {Expected[1], Expected[2]}
\* The detections of a letter of the expected set.
ExpectedDetections == UNION {SymbolsOf(l) : l \in ExpectedSet}
\* A mismatch entry for a letter that was detected.
IsDetectedEntry(m) ==
    /\ m.letter \in DetectedLetters \ ExpectedSet
    /\ m.count = Cardinality(SymbolsOf(m.letter))
    /\ m.top_confidence = TopOf(m.letter)
\* The entry standing for an expected letter that nothing matched.
IsPlaceholder(m) ==
    /\ m.count = 1
    /\ m.top_confidence = 0
    /\ IF request.level = "easy"
       THEN m.letter = Expected[1] /\ ExpectedDetections = {}
       ELSE m.letter \in {Expected[1], Expected[2]} /\ SymbolsOf(m.letter) = {}

\* C18 as stated: every mismatch entry is a detected character outside the
\* expected set, listed once with its number of detections and its top
\* confidence, and match_count plus the mismatch counts is detected_count.
C18_Partition ==
    Scored =>
        /\ \A i \in 1..Len(result.mismatches) : IsDetectedEntry(result.mismatches[i])
        /\ \A i \in 1..Len(result.mismatches) : \A j \in 1..Len(result.mismatches) :
              result.mismatches[i].letter = result.mismatches[j].letter => i = j
        /\ result.match_count + SumCounts(result.mismatches) = result.detected_count

\* C18: every detected letter outside the expected set has exactly one
\* mismatch entry, with its number of detections and its top confidence;
\* every other entry is a placeholder (count 1, confidence 0.0), one for
\* each expected letter that nothing matched when at least one letter was
\* detected (the list is empty when none was); the counts of the entries of
\* detected letters add up to detected_count minus the detections of the
\* expected set, and in easy mode match_count is the number of those
\* detections.
C18_PartitionWithPlaceholders ==
    Scored =>
        LET ms == result.mismatches
            detected == {i \in 1..Len(ms) : ms[i].letter \in DetectedLetters \ ExpectedSet}
        IN  /\ \A i \in 1..Len(ms) : IsDetectedEntry(ms[i]) \/ IsPlaceholder(ms[i])
            /\ \A l \in DetectedLetters \ ExpectedSet :
                  Cardinality({i \in 1..Len(ms) : ms[i].letter = l}) = 1
            /\ Len(ms) - Cardinality(detected) =
                  IF AsciiLetterSymbols = {} THEN 0
                  ELSE IF request.level = "easy"
                  THEN (IF ExpectedDetections = {} THEN 1 ELSE 0)
                  ELSE Cardinality({k \in 1..2 : SymbolsOf(Expected[k]) = {}})
            /\ SumCounts(SelectSeq(ms, LAMBDA m : m.letter \in DetectedLetters \ ExpectedSet))
                 = result.detected_count - Cardinality(ExpectedDetections)
            /\ result.detected_count = Cardinality(AsciiLetterSymbols)
            /\ request.level = "easy" => result.match_count = Cardinality(ExpectedDetections)

\* Expected "A", a single C at 0.90: the C and a placeholder for A.
C18_Witness ==
    /\ Scored
    /\ request.level = "easy"
    /\ Expected = <<"A">>
    /\ Len(symbols) = 1
    /\ result.detected_count = 1
    /\ result.match_count = 0
    /\ result.mismatches = <<[letter |-> "C", count |-> 1, top_confidence |-> 900],
                             [letter |-> "A", count |-> 1, top_confidence |-> 0]>>

\* C20 as stated: in easy mode, when the only detected letter is the
\* expected letter and its confidence is below 0.30, is_correct is false and
\* the reason is the low-confidence reason.
C20_OnlyLetterWeak ==
    (Scored /\ request.level = "easy") =>
        ((/\ Cardinality(AsciiLetterSymbols) = 1
          /\ SymbolsOf(Expected[1]) = AsciiLetterSymbols
          /\ \A i \in AsciiLetterSymbols : symbols[i].confidence < 10 * MIN_CONF_SYMBOL)
         => /\ result.is_correct = FALSE
            /\ result.reason = "Low confidence on primary (" \o Fmt2(result.top_match_confidence) \o ").")

\* ----------------------------------------------------------------- route claims
Responded == stage = "responded"
\* The request was authenticated and the API key was configured.
Admitted ==
    /\ http.endpoint \in SecuredEndpoints
    /\ ADMIN_USERNAME # "" /\ ADMIN_PASSWORD # ""
    /\ http.credentials = [username |-> ADMIN_USERNAME, password |-> ADMIN_PASSWORD]
    /\ response.error # "Missing GCV_API_KEY configuration"

\* C12 as stated: an HTTPException raised by the detector inside
\* POST /alphabet_mastery reaches the client with its own status code and
\* detail.
C12_DetectorErrorPassesThrough ==
    (Responded /\ http.endpoint = "/alphabet_mastery" /\ inner.type = "HTTPException") =>
        /\ response.status_code = inner.status_code
        /\ response.error = inner.detail

\* C13 as stated: POST /sentence/next and POST /myth/next answer 404 when the
\* store call returned no row (the route then raises its 404), not 500.
C13_NoRowIs404 ==
    (/\ Responded
     /\ http.endpoint \in {"/sentence/next", "/myth/next"}
     /\ inner.type = "HTTPException"
     /\ inner.status_code = 404) =>
        response.status_code = 404

\* The input of the request fails the validation of its route.
InvalidInput ==
    CASE http.endpoint = "/alphabet_mastery" ->
            LET b == http.body
                expected == Strip(b.expected_letter)
            IN  \/ expected = <<>>
                \/ \E i \in 1..Len(expected) : ~ IsAlpha(expected[i])
                \/ b.is_capital \notin {"capital", "small"}
                \/ b.level \notin {"easy", "hard"}
                \/ b.level = "easy" /\ Len(expected) # 1
                \/ b.level = "hard" /\ Len(expected) # 2
                \/ CleanImage(b.canvas_input) = <<>>
                \/ ~ B64Decodes(CleanImage(b.canvas_input))
      [] http.endpoint = "/sentence/next" -> StripLevel(http.body.level) = ""
      [] http.endpoint = "/reading_speed" ->
            \/ http.body.level.kind # "str"
            \/ StripCapitalize(http.body.level.value) \notin {"Easy", "Medium", "Hard"}
      [] OTHER -> FALSE

\* C14 as stated: a request whose input fails validation is answered with
\* 400, and no OCR or database call was made for it.
C14_InvalidInputIs400 ==
    (Responded /\ Admitted /\ InvalidInput) =>
        /\ response.status_code = 400
        /\ calls.ocr = 0
        /\ calls.db = 0

\* The part that holds: no OCR, database or chat call is made for a request
\* whose input fails validation, and the answer is a 400 or a 500.
C14_NoCallOnInvalidInput ==
    (Responded /\ Admitted /\ InvalidInput) =>
        /\ calls = NoCalls
        /\ response.status_code \in {400, 500}

\* C19 as stated: when the chat model answers, POST /parent_chat returns the
\* success envelope and not a 500.
C19_ChatAnswers ==
    (/\ Responded
     /\ Admitted
     /\ http.endpoint = "/parent_chat"
     /\ http.body.model = "answers") =>
        /\ response.status_code = 200
        /\ response.status = "success"

\* C23: in easy mode, when no detected letter is the exact expected letter,
\* is_correct is true only if the highest-confidence letter is an allowed
\* equivalent of the expected letter with confidence at least 0.80.
C23_EquivalentStricter ==
    (Scored /\ request.level = "easy" /\ SymbolsOf(Expected[1]) = {} /\ result.is_correct = TRUE) =>
        \E i \in AsciiLetterSymbols :
            /\ NormCase(symbols[i].text, request.is_capital) \in Equiv(Expected[1])
            /\ \A j \in AsciiLetterSymbols : symbols[j].confidence <= symbols[i].confidence
            /\ Round3(symbols[i].confidence) >= TOP_CONF_EASY + EQUIV_MARGIN

\* C25: for every batch_size >= 1, a fetch_next_myth_row call on a non-empty
\* myths table that does not fail returns a non-empty batch (and so moves the
\* cursor to the last id of that batch).
C25_MythBatchNeverEmpty ==
    \A p \in Procs :
        (pc[p] = "done" /\ call[p].fn = "myth" /\ MythIds # {} /\ ret[p].kind # "raised") =>
            /\ ret[p].kind = "rows"
            /\ ret[p].ids # <<>>
            /\ conn[p].commits = 1

\* C26: in every scorer result, in both modes and also for a two-letter
\* answer made of the same letter twice, match_count is at most
\* detected_count and match_ratio lies between 0 and 1.
C26_CountsBounded ==
    Scored =>
        /\ result.match_count <= result.detected_count
        /\ result.match_ratio >= 0
        /\ result.match_ratio <= 1000

\* The cursor values stored for category key k.
CursorOfKey(k) ==
    IF k[1] = "sentence" THEN SentenceCur(k[2])
    ELSE IF k[1] = "reading" THEN ReadingCur(k[2]) ELSE MythCur

\* C27: a step of a cursor-store call changes no cursor but the one of the
\* call's own key: a sentence call leaves the other level's sentence cursor,
\* the reading cursors and the myth cursor as they were, a reading call the
\* sentence and myth cursors, a myth call the sentence and reading cursors;
\* and no step changes a content table.
C27_OnlyOwnCursor ==
    [][/\ UNCHANGED contentVars
       /\ \A p \in Procs :
             pc'[p] # pc[p] =>
                /\ \A k \in Keys \ {KeyOf(call[p])} : CursorOfKey(k)' = CursorOfKey(k)
                /\ call[p].fn # "sentence" => UNCHANGED sentence_cursors
                /\ call[p].fn # "reading" => UNCHANGED reading_speed_cursors
                /\ call[p].fn # "myth" => UNCHANGED myth_cursors]_vars

\* A "Hard" sentence call has committed while the "Easy" sentence cursor, the
\* reading cursor and the myth cursor all hold other values.
C27_Witness ==
    \E p \in Procs :
        /\ pc[p] = "done"
        /\ call[p].fn = "sentence"
        /\ call[p].level = "Hard"
        /\ ret[p].kind = "row"
        /\ sentence_cursors = {[difficulty_level |-> "Easy", last_sentence_id |-> 3],
                               [difficulty_level |-> "Hard", last_sentence_id |-> 2]}
        /\ reading_speed_cursors = {[level |-> "Easy", last_reading_id |-> 1]}
        /\ myth_cursors # {}

\* C28: a call that took the advisory lock ends its transaction by exactly
\* one commit or rollback and closes its connection before it returns, on the
\* success, no-row and exception paths; once it has returned it holds no lock
\* and has no write pending; a held lock is always released, and every call
\* waiting for a lock eventually gets it.
C28_LockAlwaysReleased ==
    /\ [](\A p \in Procs :
            /\ pc[p] \in {"done", "idle"} => (~ HoldsLock(p) /\ pending[p] = <<>>)
            /\ pc[p] = "done" =>
                  /\ conn[p].closed
                  /\ conn[p].commits + conn[p].rollbacks = 1
                  /\ conn[p].commits = 1 <=> ret[p].kind = "row")
    /\ \A p \in Procs : HoldsLock(p) ~> ~ HoldsLock(p)
    /\ \A p \in Procs : (pc[p] = "lock") ~> (pc[p] = "select")

\* A call waits while the other worker holds the lock of the same name.
C28_WitnessWaiting ==
    \E p, q \in Procs :
        /\ p # q
        /\ pc[p] = "lock"
        /\ HoldsLock(q)
        /\ LockName(call[q]) = LockName(call[p])

\* One call has failed and returned, its connection closed after a rollback,
\* and the other call of the same lock name now holds the lock.
C28_Witness ==
    \E p, q \in Procs :
        /\ p # q
        /\ pc[q] = "done"
        /\ ret[q] = Raised
        /\ conn[q] = Closed(RolledBack(FreshConn))
        /\ pc[p] = "select"
        /\ HoldsLock(p)
        /\ LockName(call[q]) = LockName(call[p])

\* C29: no myth row appears twice in the batch one fetch_next_myth_row call
\* returns, whatever the table, the batch size and the cursor.
C29_NoRepeatInBatch ==
    \A p \in Procs :
        (pc[p] = "done" /\ call[p].fn = "myth" /\ ret[p].kind = "rows") =>
            \A i, j \in 1..Len(ret[p].ids) : i # j => ret[p].ids[i] # ret[p].ids[j]

\* The reasons that report an accepted answer, and those that report a
\* rejected one.
SuccessReasons ==
    {"Primary letter (or allowed equivalent) matches with strong confidence.",
     "Expected letter (or equivalent) dominates detections.",
     "Both letters detected with strong confidence.",
     "Expected pair dominates the detections."}
FailureReasons ==
    {"No letters detected by OCR.", "No matching letter detected.",
     "Expected letter not primary.", "Both letters must be present at least once.",
     "Low confidence and low ratio for the expected pair."}
        \cup {"Low confidence on primary (" \o Fmt2(c) \o ")." : c \in 0..1000}
        \cup {OrderReason(a, b) : a, b \in {"A", "C", "O", "a", "c", "o"}}

\* C30: in every scorer result the reason is a success reason (strong
\* confidence or dominance, of the mode scored) exactly when is_correct is
\* true, and a failure reason exactly when it is false.
C30_ReasonAgrees ==
    Scored =>
        /\ result.reason \in SuccessReasons \cup FailureReasons
        /\ result.is_correct = TRUE <=> result.reason \in SuccessReasons
        /\ result.is_correct = FALSE <=> result.reason \in FailureReasons
        /\ (result.is_correct = TRUE /\ request.level = "easy") =>
              result.reason \in
                 {"Primary letter (or allowed equivalent) matches with strong confidence.",
                  "Expected letter (or equivalent) dominates detections."}
        /\ (result.is_correct = TRUE /\ request.level = "hard") =>
              result.reason \in {"Both letters detected with strong confidence.",
                                 "Expected pair dominates the detections."}

\* An easy answer accepted by dominance alone.
C30_Witness ==
    /\ Scored
    /\ request.level = "easy"
    /\ result.is_correct = TRUE
    /\ result.reason = "Expected letter (or equivalent) dominates detections."
    /\ result.detected_count >= 2

\* A pair rejected for its order.
C30_WitnessOrder ==
    /\ Scored
    /\ request.level = "hard"
    /\ result.is_correct = FALSE
    /\ result.reason = OrderReason("C", "O")

\* A pair accepted by dominance.
C30_WitnessPair ==
    /\ Scored
    /\ request.level = "hard"
    /\ result.is_correct = TRUE
    /\ result.reason = "Expected pair dominates the detections."

\* --------------------------------------------------------- admission claims
\* Both admin credentials are configured and the request carries exactly them.
Authorized ==
    /\ ADMIN_USERNAME # ""
    /\ ADMIN_PASSWORD # ""
    /\ http.credentials.username = ADMIN_USERNAME
    /\ http.credentials.password = ADMIN_PASSWORD

C24_WitnessUnconfigured ==
    /\ Responded
    /\ http.endpoint = "/sentence/next"
    /\ ADMIN_USERNAME = "admin" /\ ADMIN_PASSWORD = ""
    /\ http.credentials = [username |-> "admin", password |-> "secret"]
    /\ response.status_code = 500

\* GET /api/health answers without credentials being looked at.
C24_WitnessHealth ==
    /\ Responded
    /\ http.endpoint = "/api/health"
    /\ ADMIN_USERNAME = ""
    /\ http.credentials = [username |-> "guest", password |-> "secret"]
    /\ response.status_code = 200

\* ---------------------------------------------------------- cursor-row claims
\* Every cursor table holds at most one row per category key.
OneCursorRowPerKey ==
    /\ \A l \in SentenceLevels : Cardinality({r \in sentence_cursors : r.difficulty_level = l}) <= 1
    /\ \A l \in ReadingLevels : Cardinality({r \in reading_speed_cursors : r.level = l}) <= 1
    /\ Cardinality({r \in myth_cursors : r.singleton = Singleton}) <= 1

Occurrences(s, ch) == Cardinality({i \in 1..Len(s) : s[i] = ch})
IsPermutationOf(s, label) ==
    /\ Len(s) = Len(label)
    /\ \A i \in 1..Len(label) : Occurrences(s, label[i]) = Occurrences(label, label[i])

\* C21: generate_rearranged_labels(label, count) returns at most count
\* strings (a set, so pairwise distinct), each a permutation of the label's
\* characters and none equal to the label ignoring case; the loop never runs
\* more than 50 times, and a one-character label yields the empty list.
C21_Jumbles ==
    /\ attempts <= max_attempts
    /\ Cardinality(fake_labels) <= count
    /\ \A s \in fake_labels :
          /\ IsPermutationOf(s, correct_label)
          /\ LowerStr(s) # LowerStr(correct_label)
    /\ Len(correct_label) = 1 => fake_labels = {}
    /\ returned => (Cardinality(fake_labels) = count \/ attempts = max_attempts)

\* Two jumbles were asked of "Aa", which has none: 50 attempts, empty list.
C21_Witness ==
    /\ returned
    /\ correct_label = <<"A", "a">>
    /\ count = 2
    /\ attempts = max_attempts
    /\ fake_labels = {}

\* A full answer: three different jumbles of "cao" before the cap.
C21_WitnessFull ==
    /\ returned
    /\ correct_label = <<"c", "a", "o">>
    /\ Cardinality(fake_labels) = 3
    /\ attempts < max_attempts

====
